---- MODULE Spec2Model ----
(***************************************************************************)
(* Model of radarr_flat_import_v2.4.py: the bulk import of movie titles    *)
(* from a flat text file into Radarr, with duplicate detection,            *)
(* disambiguation and a persisted resume index.                            *)
(*                                                                         *)
(* Strings are sequences of one-character strings.  Python's None is       *)
(* NoYear for a year, NoId for a tmdbId (None and 0 are both falsy in the  *)
(* only test the script makes of it) and NoCap for MAX_ADD (the flag       *)
(* parser accepts positive integers only).                                 *)
(***************************************************************************)
EXTENDS Integers, Sequences, FiniteSets, TLC

\* ---------------------------------------------------------------- bounds
NumLines == 2
MaxRuns == 2
MaxCap == 1
MaxFaults == 1

\* ------------------------------------------------------------- constants
STRICT_YEAR_MATCH == TRUE
INTERACTIVE_ON_ISSUES == TRUE
MAX_CHOICES_TO_SHOW == 8
CONFIRM_EACH_ADD_DEFAULT == TRUE

NoYear == -1
NoId == 0
NoCap == 0

\* ------------------------------------------------------ string primitives
WhiteSpace == {" ", "\t"}
Digits == <<"0", "1", "2", "3", "4", "5", "6", "7", "8", "9">>
IsDigit(c) == \E i \in 1..10 : Digits[i] = c
DigitVal(c) == (CHOOSE i \in 1..10 : Digits[i] = c) - 1

LowerMap ==
    [A |-> "a", B |-> "b", C |-> "c", D |-> "d", E |-> "e", F |-> "f",
     G |-> "g", H |-> "h", I |-> "i", J |-> "j", K |-> "k", L |-> "l",
     M |-> "m", N |-> "n", O |-> "o", P |-> "p", Q |-> "q", R |-> "r",
     S |-> "s", T |-> "t", U |-> "u", V |-> "v", W |-> "w", X |-> "x",
     Y |-> "y", Z |-> "z"]
lower(s) == [i \in 1..Len(s) |-> IF s[i] \in DOMAIN LowerMap THEN LowerMap[s[i]] ELSE s[i]]

RECURSIVE lstrip(_)
lstrip(s) == IF s # <<>> /\ Head(s) \in WhiteSpace THEN lstrip(Tail(s)) ELSE s
RECURSIVE rstrip(_)
rstrip(s) == IF s # <<>> /\ s[Len(s)] \in WhiteSpace THEN rstrip(SubSeq(s, 1, Len(s) - 1)) ELSE s
strip(s) == rstrip(lstrip(s))

\* A search that does not anchor the pattern at the end of the string.
YearMatchStarts_Anywhere(term) ==
    {p \in 1..Len(term) :
        /\ p + 5 <= Len(term)
        /\ term[p] = "("
        /\ \A k \in 1..4 : IsDigit(term[p + k])
        /\ term[p + 5] = ")"}

\* re.search(r"\((\d{4})\)\s*$", term): the 1-based positions at which the
\* pattern matches up to the end of the string; re.search takes the leftmost.
YearMatchStarts(term) ==
    {p \in 1..Len(term) :
        /\ p + 5 <= Len(term)
        /\ term[p] = "("
        /\ \A k \in 1..4 : IsDigit(term[p + k])
        /\ term[p + 5] = ")"
        /\ \A q \in (p + 6)..Len(term) : term[q] \in WhiteSpace}

Min(S) == CHOOSE x \in S : \A y \in S : x <= y

parse_title_year(term) ==
    LET starts == YearMatchStarts(term) IN
    IF starts # {}
    THEN LET p == Min(starts) IN
         [title |-> strip(SubSeq(term, 1, p - 1)),
          year |-> 1000 * DigitVal(term[p + 1]) + 100 * DigitVal(term[p + 2])
                   + 10 * DigitVal(term[p + 3]) + DigitVal(term[p + 4])]
    ELSE [title |-> strip(term), year |-> NoYear]

\* ------------------------------------------------------------ input lines
T_Up2009 == <<"U", "p", " ", "(", "2", "0", "0", "9", ")">>
T_up == <<"u", "p">>
T_It == <<"I", "t">>
T_It1990 == <<"I", "t", " ", "(", "1", "9", "9", "0", ")">>
T_It1985 == <<"I", "t", " ", "(", "1", "9", "8", "5", ")">>
T_Zz == <<"Z", "z">>
T_Ex == <<"E", "x">>

\* ------------------------------------------------ the remote catalog's data
M_Up == [tmdbId |-> 1, title |-> <<"U", "p">>, year |-> 2009]
M_Upside == [tmdbId |-> 2, title |-> <<"U", "p", "s", "i", "d", "e">>, year |-> 2012]
M_It2017 == [tmdbId |-> 3, title |-> <<"I", "t">>, year |-> 2017]
M_It1990 == [tmdbId |-> 4, title |-> <<"I", "t">>, year |-> 1990]
M_ExNoId == [tmdbId |-> NoId, title |-> <<"E", "x">>, year |-> 2000]
NoMovie == [tmdbId |-> NoId, title |-> <<>>, year |-> NoYear]

\* What GET /api/v3/movie/lookup answers for a term, in relevance order.
RemoteLookup(term) ==
    LET t == lower(parse_title_year(term).title) IN
    CASE t = <<"u", "p">> -> <<M_Upside, M_Up>>
      [] t = <<"i", "t">> -> <<M_It2017, M_It1990>>
      [] t = <<"e", "x">> -> <<M_ExNoId>>
      [] OTHER -> <<>>

TmdbIds == 1..8

\* --------------------------------------------------------------- prompts
\* Answers the operator types at the prompts.  A text no branch of a prompt
\* loop accepts only repeats the prompt.  Asked(c, S) is what is typed when
\* the prompt is shown only under c.
Asked(c, S) == IF c THEN S ELSE {""}

\* The answers that take a prompt's default: continue, add, skip the choice.
YesAnswers == {"", "y", "yes"}
SkipAnswers == {"", "s", "skip"}
ContinueAnswers == {"", "yes", "n", "quit", "always"}
ConfirmAnswers == {"", "y", "no", "skip", "all"}
ChoiceAnswers == {"", "skip", "q", "a", "0", "1"}

IsDigitAnswer(ans) == ans \in {"0", "1"}
AnswerInt(ans) == IF ans = "0" THEN 0 ELSE 1

\* An issue prompt that asks although the flag is set.
prompt_continue_Forgetful(ac, ans) ==
    IF ans \in {"", "y", "yes"} THEN [ok |-> TRUE, ac |-> ac]
    ELSE IF ans \in {"n", "no", "q", "quit"} THEN [ok |-> FALSE, ac |-> ac]
    ELSE [ok |-> TRUE, ac |-> TRUE]

\* prompt_continue(reason) with the flag always_continue = ac and the
\* operator's answer ans: the returned bool and the flag afterwards.
prompt_continue(ac, ans) ==
    IF ~INTERACTIVE_ON_ISSUES \/ ac THEN [ok |-> TRUE, ac |-> ac]
    ELSE IF ans \in {"", "y", "yes"} THEN [ok |-> TRUE, ac |-> ac]
    ELSE IF ans \in {"n", "no", "q", "quit"} THEN [ok |-> FALSE, ac |-> ac]
    ELSE [ok |-> TRUE, ac |-> TRUE]

\* A confirmation prompt that does not know --yes-all.
prompt_confirm_add_NoYesAll(auto, yesall, ay, ans) ==
    IF auto THEN [ok |-> TRUE, ay |-> ay]
    ELSE IF ay THEN [ok |-> TRUE, ay |-> ay]
    ELSE IF ans \in {"", "y", "yes"} THEN [ok |-> TRUE, ay |-> ay]
    ELSE IF ans \in {"n", "no", "s", "skip"} THEN [ok |-> FALSE, ay |-> ay]
    ELSE [ok |-> TRUE, ay |-> TRUE]

\* prompt_confirm_add with the flags AUTO_ADD = auto, YES_ALL = yesall and
\* always_yes_add = ay.
prompt_confirm_add(auto, yesall, ay, ans) ==
    IF auto THEN [ok |-> TRUE, ay |-> ay]
    ELSE IF ay THEN [ok |-> TRUE, ay |-> ay]
    ELSE IF ans \in {"", "y", "yes"} THEN [ok |-> TRUE, ay |-> (IF yesall THEN TRUE ELSE ay)]
    ELSE IF ans \in {"n", "no", "s", "skip"} THEN [ok |-> FALSE, ay |-> ay]
    ELSE [ok |-> TRUE, ay |-> TRUE]

\* ------------------------------------------------ matching / disambiguation
Take(s, n) == SubSeq(s, 1, IF Len(s) < n THEN Len(s) ELSE n)

\* Lines 686-694: the candidates of the desired year, and the candidates
\* kept: the year matches if there are any, otherwise all of them.
IsStrict(desired_year) == desired_year # NoYear /\ STRICT_YEAR_MATCH

YearMatches(results, desired_year) ==
    LET YearIs(m) == m.year = desired_year IN SelectSeq(results, YearIs)

\* A year miss that is never noticed.
IsYearMiss_Never(results, desired_year) == FALSE

IsYearMiss(results, desired_year) ==
    IsStrict(desired_year) /\ YearMatches(results, desired_year) = <<>>

\* A filter that keeps every candidate.
Filtered_All(results, desired_year) == results

Filtered(results, desired_year) ==
    IF IsStrict(desired_year) /\ YearMatches(results, desired_year) # <<>>
    THEN YearMatches(results, desired_year)
    ELSE results

\* Lines 699-700: the kept candidates whose title is the term's title.
ExactTitle(term, filtered) ==
    LET title_only == parse_title_year(term).title
        IsExact(m) == lower(strip(m.title)) = lower(title_only)
    IN SelectSeq(filtered, IsExact)

\* A shortcut that does not look at the desired year.
Shortcut_AnyYear(term, filtered, desired_year) ==
    Len(ExactTitle(term, filtered)) = 1

\* Line 701: the exact-title shortcut applies.
Shortcut(term, filtered, desired_year) ==
    Len(ExactTitle(term, filtered)) = 1 /\ desired_year = NoYear

\* A choice prompt that the flag always_continue does not lock.
AsksChoice_Unlocked(term, filtered, desired_year, ac) ==
    /\ filtered # <<>>
    /\ ~Shortcut(term, filtered, desired_year)
    /\ INTERACTIVE_ON_ISSUES /\ Len(filtered) > 1

\* Line 705: the choice prompt is shown.
AsksChoice(term, filtered, desired_year, ac) ==
    /\ filtered # <<>>
    /\ ~Shortcut(term, filtered, desired_year)
    /\ INTERACTIVE_ON_ISSUES /\ ~ac /\ Len(filtered) > 1

\* Lines 712-729: an out-of-range number prints "Invalid choice." and asks
\* again, so it ends no prompt.
ChoiceEndsPrompt(shown, ans) ==
    IsDigitAnswer(ans) => AnswerInt(ans) < Len(shown)

\* A choice prompt whose "a" picks the first candidate and sets no flag.
choose_from_results_OwnFlag(term, results, desired_year, ac, yans, cans) ==
    LET p == IF IsYearMiss(results, desired_year)
             THEN prompt_continue(ac, yans)
             ELSE [ok |-> TRUE, ac |-> ac]
        filtered == Filtered(results, desired_year)
        shown == Take(filtered, MAX_CHOICES_TO_SHOW)
    IN
    IF ~p.ok THEN [kind |-> "ABORT", m |-> NoMovie, ac |-> p.ac]
    ELSE IF filtered = <<>> THEN [kind |-> "None", m |-> NoMovie, ac |-> p.ac]
    ELSE IF Shortcut(term, filtered, desired_year)
         THEN [kind |-> "movie", m |-> ExactTitle(term, filtered)[1], ac |-> p.ac]
    ELSE IF AsksChoice(term, filtered, desired_year, p.ac)
         THEN IF cans \in {"", "s", "skip"} THEN [kind |-> "None", m |-> NoMovie, ac |-> p.ac]
              ELSE IF cans \in {"q", "quit"} THEN [kind |-> "ABORT", m |-> NoMovie, ac |-> p.ac]
              ELSE IF cans = "a" THEN [kind |-> "movie", m |-> shown[1], ac |-> p.ac]
              ELSE [kind |-> "movie", m |-> shown[AnswerInt(cans) + 1], ac |-> p.ac]
    ELSE [kind |-> "movie", m |-> filtered[1], ac |-> p.ac]

\* A choice prompt at which Enter picks the first candidate shown.
choose_from_results_EnterPicks(term, results, desired_year, ac, yans, cans) ==
    LET p == IF IsYearMiss(results, desired_year)
             THEN prompt_continue(ac, yans)
             ELSE [ok |-> TRUE, ac |-> ac]
        filtered == Filtered(results, desired_year)
        shown == Take(filtered, MAX_CHOICES_TO_SHOW)
    IN
    IF ~p.ok THEN [kind |-> "ABORT", m |-> NoMovie, ac |-> p.ac]
    ELSE IF filtered = <<>> THEN [kind |-> "None", m |-> NoMovie, ac |-> p.ac]
    ELSE IF Shortcut(term, filtered, desired_year)
         THEN [kind |-> "movie", m |-> ExactTitle(term, filtered)[1], ac |-> p.ac]
    ELSE IF AsksChoice(term, filtered, desired_year, p.ac)
         THEN IF cans = "" THEN [kind |-> "movie", m |-> shown[1], ac |-> p.ac]
              ELSE IF cans \in {"s", "skip"} THEN [kind |-> "None", m |-> NoMovie, ac |-> p.ac]
              ELSE IF cans \in {"q", "quit"} THEN [kind |-> "ABORT", m |-> NoMovie, ac |-> p.ac]
              ELSE IF cans = "a" THEN [kind |-> "movie", m |-> shown[1], ac |-> TRUE]
              ELSE [kind |-> "movie", m |-> shown[AnswerInt(cans) + 1], ac |-> p.ac]
    ELSE [kind |-> "movie", m |-> filtered[1], ac |-> p.ac]

\* choose_from_results(term, results, desired_year) with always_continue =
\* ac, the answer yans to the year-miss prompt and cans to the choice prompt.
\* kind is "ABORT", "None" or "movie"; ac is always_continue afterwards.
choose_from_results(term, results, desired_year, ac, yans, cans) ==
    LET p == IF IsYearMiss(results, desired_year)
             THEN prompt_continue(ac, yans)
             ELSE [ok |-> TRUE, ac |-> ac]
        filtered == Filtered(results, desired_year)
        shown == Take(filtered, MAX_CHOICES_TO_SHOW)
    IN
    IF ~p.ok THEN [kind |-> "ABORT", m |-> NoMovie, ac |-> p.ac]
    ELSE IF filtered = <<>> THEN [kind |-> "None", m |-> NoMovie, ac |-> p.ac]
    ELSE IF Shortcut(term, filtered, desired_year)
         THEN [kind |-> "movie", m |-> ExactTitle(term, filtered)[1], ac |-> p.ac]
    ELSE IF AsksChoice(term, filtered, desired_year, p.ac)
         THEN IF cans \in {"", "s", "skip"} THEN [kind |-> "None", m |-> NoMovie, ac |-> p.ac]
              ELSE IF cans \in {"q", "quit"} THEN [kind |-> "ABORT", m |-> NoMovie, ac |-> p.ac]
              ELSE IF cans = "a" THEN [kind |-> "movie", m |-> shown[1], ac |-> TRUE]
              ELSE [kind |-> "movie", m |-> shown[AnswerInt(cans) + 1], ac |-> p.ac]
    ELSE [kind |-> "movie", m |-> filtered[1], ac |-> p.ac]

\* ------------------------------------------------------------ resume state
\* The content of the state file.  A JSON value is [t, v]: an integer, a
\* string of digits (v is the number it denotes), any other string, null, or
\* "missing" for a key the object does not have.
JInt(n) == [t |-> "int", v |-> n]
JNumStr(n) == [t |-> "numstr", v |-> n]
JStr == [t |-> "str", v |-> 0]
JNull == [t |-> "null", v |-> 0]
JMissing == [t |-> "missing", v |-> 0]

FileAbsent == [kind |-> "absent", next_index |-> JMissing, last_index |-> JMissing]
FileInvalid == [kind |-> "invalid", next_index |-> JMissing, last_index |-> JMissing]
FileNonObject == [kind |-> "nonobject", next_index |-> JMissing, last_index |-> JMissing]
FileObject(n, l) == [kind |-> "object", next_index |-> n, last_index |-> l]

\* Python's int(x): ok is FALSE when it raises ValueError or TypeError.
int(x) ==
    IF x.t \in {"int", "numstr"} THEN [ok |-> TRUE, v |-> x.v] ELSE [ok |-> FALSE, v |-> 0]

\* load_state(): the next_index entry of the returned dict (JMissing when the
\* dict has no such key).
load_state(file) ==
    IF file.kind = "absent" THEN JInt(0)
    ELSE IF file.kind = "object"
         THEN IF file.next_index.t # "missing" THEN file.next_index
              ELSE IF file.last_index.t # "missing"
                   THEN IF int(file.last_index).ok THEN JInt(int(file.last_index).v)
                        ELSE JInt(0)
                   ELSE JMissing
    ELSE JInt(0)

\* state.get("next_index", 0)
StateGet(x) == IF x.t = "missing" THEN JInt(0) ELSE x

\* What json.dumps({"next_index": next_index}) leaves in the file.
save_state(next_index) == FileObject(JInt(next_index), JMissing)

\* Path.write_text(...) inside save_state: the file after a write that
\* stores the text, after one that raises before the file is opened
\* ("refused": the file stays as it was), and after one that fails or is
\* interrupted once open(..., "w") has emptied the file ("truncated": the
\* empty file is no JSON).
write_text(file, next_index, w) ==
    CASE w = "stored" -> save_state(next_index)
      [] w = "truncated" -> FileInvalid
      [] OTHER -> file

NoLine == -1

\* The stored index when the file is what save_state writes.
StoredIndex(file) ==
    IF file.kind = "object" /\ file.next_index.t = "int" THEN file.next_index.v ELSE NoLine

\* _safe_unlink(STATE_FILE): the file afterwards; an unlink that raises
\* leaves it.
safe_unlink(file, raises) ==
    IF file.kind # "absent" /\ ~raises THEN FileAbsent ELSE file

\* get_existing_tmdb_ids(): the truthy tmdbIds of the library.
get_existing_tmdb_ids(movies_in_library) == {i \in movies_in_library : i # NoId}

\* ------------------------------------------------------------------ state
VARIABLES
    DRY_RUN, MAX_ADD, AUTO_ADD, YES_ALL,   \* command-line flags
    movies,                                \* the lines read from the input file
    stateFile,                             \* content of STATE_FILE
    library,                               \* tmdbIds of the movies Radarr holds
    run, pc,                               \* number of the run, position in main()
    start_index, idx,                      \* resume index, loop variable
    existing_tmdb,                         \* the duplicate index
    always_continue, always_yes_add,       \* sticky prompt flags
    stats, dryrun_hits,                    \* counters, dry-run report list
    results, selected,                     \* locals of the loop body
    faults,                                \* failed remote calls and file writes so far
    outcome,                               \* log tag of the line at idx, "none" until logged
    writes,                                \* values passed to save_state this run
    posts,                                 \* number of add calls made this run
    halted,                                \* line at which --max-add stopped the run
    failedLine,                            \* line whose lookup or add failed last
    exit_msg,                              \* message of the fatal() that ended the run
    library0,                              \* the library before the first run
    plain,                                 \* so far every remote call succeeded, every
                                           \* prompt got its default answer, and the first
                                           \* run began at line 0
    saved,                                 \* index the last save_state that succeeded
                                           \* stored, NoLine when there is none
    stored                                 \* the last save_state call of the run stored
                                           \* its index (TRUE before the first call)

flags == <<DRY_RUN, MAX_ADD, AUTO_ADD, YES_ALL, movies>>
memory == <<start_index, idx, existing_tmdb, always_continue, always_yes_add,
            stats, dryrun_hits, results, selected>>
history == <<outcome, writes, posts, halted, failedLine, exit_msg, library0, plain, saved, stored>>
vars == <<flags, stateFile, library, run, pc, memory, faults, history>>

ZeroStats == [processed |-> 0, would_add |-> 0, duplicates |-> 0, misses |-> 0,
              errors |-> 0, skipped |-> 0, added |-> 0]
Bump(s, k) == [s EXCEPT ![k] = @ + 1]

\* The input files: the windows of NumLines lines of a ring of the terms.
TermRing == <<T_Up2009, T_up, T_Zz, T_It, T_It1985, T_Ex, T_It1990>>
InputFiles ==
    {[i \in 1..NumLines |-> TermRing[((f + i - 2) % Len(TermRing)) + 1]] : f \in 1..Len(TermRing)}
InitLibraries == {{}, {NoId, 1}}
InitStateFiles ==
    {FileAbsent, FileInvalid, FileNonObject,
     FileObject(JMissing, JMissing),
     FileObject(JMissing, JInt(1)), FileObject(JMissing, JStr),
     FileObject(JStr, JMissing), FileObject(JNull, JMissing),
     FileObject(JNumStr(1), JMissing)}
    \cup {FileObject(JInt(k), JMissing) : k \in 0..(NumLines + 1)}

Init ==
    /\ DRY_RUN \in BOOLEAN
    /\ MAX_ADD \in {NoCap} \cup 1..MaxCap
    /\ AUTO_ADD \in (IF DRY_RUN THEN {FALSE} ELSE BOOLEAN)
    /\ YES_ALL \in (IF DRY_RUN \/ AUTO_ADD THEN {FALSE} ELSE BOOLEAN)
    /\ movies \in InputFiles
    /\ stateFile \in InitStateFiles
    /\ library \in InitLibraries
    /\ run = 1
    /\ pc = "load"
    /\ start_index = 0
    /\ idx = 0
    /\ existing_tmdb = {}
    /\ always_continue = FALSE
    /\ always_yes_add = FALSE
    /\ stats = ZeroStats
    /\ dryrun_hits = <<>>
    /\ results = <<>>
    /\ selected = NoMovie
    /\ faults = 0
    /\ outcome = "none"
    /\ writes = <<>>
    /\ posts = 0
    /\ halted = NoLine
    /\ failedLine = NoLine
    /\ exit_msg = ""
    /\ library0 = library
    /\ plain = (int(StateGet(load_state(stateFile))) = [ok |-> TRUE, v |-> 0])
    /\ saved = StoredIndex(stateFile)
    /\ stored = TRUE

\* ---------------------------------------------------------------- helpers
\* A fatal that logs the message and lets the loop go on.
fatal_Continue(msg) ==
    /\ pc' = "loop"
    /\ exit_msg' = msg

\* An abort that leaves the loop as break does, instead of the process.
fatal_Break(msg) ==
    /\ pc' = "final"
    /\ exit_msg' = msg

\* fatal(msg): log the message and sys.exit(1); SystemExit is no Exception,
\* so the except clause of the loop body does not catch it.
fatal(msg) ==
    /\ pc' = "exit"
    /\ exit_msg' = msg

\* The for statement takes the next index.  The locals of the iteration
\* that ends are dead, every iteration assigns them before it reads them:
\* the model forgets them.
NextLine ==
    /\ pc' = "loop"
    /\ idx' = idx + 1
    /\ results' = <<>>
    /\ selected' = NoMovie
    /\ UNCHANGED exit_msg

\* The failing answers of a remote call or of a file write, while the
\* model's budget of failures lasts.
Faulty(S) == IF faults < MaxFaults THEN S ELSE {}

\* A call of save_state(n), lines 572-576: the write stores the index, or it
\* raises and the except clause swallows it, with the file as it was or
\* emptied; the run goes on either way.
WriteState(n) ==
    /\ writes' = Append(writes, n)
    /\ \E w \in {"stored"} \cup Faulty({"refused", "truncated"}) :
          /\ stateFile' = write_text(stateFile, n, w)
          /\ saved' = (IF w = "stored" THEN n ELSE saved)
          /\ stored' = (w = "stored")
          /\ faults' = faults + (IF w = "stored" THEN 0 ELSE 1)

term == movies[idx + 1]
desired_year == parse_title_year(term).year

\* An issue prompt is shown only while this holds (line 292).
IssuePrompts(ac) == INTERACTIVE_ON_ISSUES /\ ~ac

\* The globals and locals of a process that has not run yet, or is gone.
ResetMemory ==
    /\ start_index' = 0
    /\ idx' = 0
    /\ existing_tmdb' = {}
    /\ always_continue' = FALSE
    /\ always_yes_add' = FALSE
    /\ stats' = ZeroStats
    /\ dryrun_hits' = <<>>
    /\ results' = <<>>
    /\ selected' = NoMovie

\* A line ends with the log tag and the counter given, then the issue prompt
\* decides: the next line, or fatal("User aborted.").
EndWithIssue(tag, counter, ans) ==
    LET p == prompt_continue(always_continue, ans) IN
    /\ stats' = Bump(stats, counter)
    /\ outcome' = tag
    /\ always_continue' = p.ac
    /\ IF p.ok THEN NextLine
       ELSE fatal("User aborted.") /\ UNCHANGED <<idx, results, selected>>

\* A line ends with the log tag and the counter given, without a prompt.
EndLine(tag, counter) ==
    /\ stats' = Bump(stats, counter)
    /\ outcome' = tag
    /\ NextLine

\* The except clause of the loop body, lines 893-897.
ExceptHandler(ans) ==
    /\ EndWithIssue("FAIL", "errors", ans)
    /\ failedLine' = idx

\* ---------------------------------------------------------------- actions
\* main(), lines 792-801: reset the counters and read the resume index; int()
\* of a value that is no number ends the process with a traceback.
LoadState ==
    /\ pc = "load"
    /\ LET n == int(StateGet(load_state(stateFile))) IN
       /\ IF n.ok
          THEN /\ start_index' = n.v
               /\ pc' = "seed"
          ELSE /\ pc' = "traceback"
               /\ UNCHANGED start_index
       /\ plain' = (plain /\ n.ok)
    /\ failedLine' = NoLine
    /\ UNCHANGED <<flags, stateFile, library, run, idx, existing_tmdb, always_continue,
                   always_yes_add, stats, dryrun_hits, results, selected, faults,
                   outcome, writes, posts, halted, exit_msg, library0, saved, stored>>

\* main(), lines 803-811: seed the duplicate index from the library.
FetchExisting ==
    /\ pc = "seed"
    /\ \E resp \in {"ok", "401", "error"} :
          /\ plain' = (plain /\ resp = "ok")
          /\ CASE resp = "ok" ->
                  /\ existing_tmdb' = get_existing_tmdb_ids(library)
                  /\ idx' = start_index
                  /\ pc' = "loop"
                  /\ UNCHANGED exit_msg
            [] resp = "401" ->
                  /\ fatal("API key rejected (401 Unauthorized)")
                  /\ UNCHANGED <<existing_tmdb, idx>>
            [] OTHER ->
                  /\ fatal("Failed to read existing Radarr library")
                  /\ UNCHANGED <<existing_tmdb, idx>>
    /\ UNCHANGED <<flags, stateFile, library, run, start_index, always_continue,
                   always_yes_add, stats, dryrun_hits, results, selected, faults,
                   outcome, writes, posts, halted, failedLine, library0, saved, stored>>

\* A cap test that never stops the run.
CapReached_Off(dry, max_add, added) == FALSE

\* The --max-add test of line 823.
CapReached(dry, max_add, added) == (~dry) /\ max_add # NoCap /\ added >= max_add

\* main(), lines 813-825: take the next line, save the index after it, count
\* it and test the cap.
Dispatch ==
    /\ pc = "loop"
    /\ idx < Len(movies)
    /\ WriteState(idx + 1)
    /\ stats' = Bump(stats, "processed")
    /\ outcome' = "none"
    /\ IF CapReached(DRY_RUN, MAX_ADD, stats.added)
       THEN /\ pc' = "final"
            /\ halted' = idx
       ELSE /\ pc' = "lookup"
            /\ UNCHANGED halted
    /\ UNCHANGED <<flags, library, run, start_index, idx, existing_tmdb, always_continue,
                   always_yes_add, dryrun_hits, results, selected, posts,
                   failedLine, exit_msg, library0, plain>>

\* main(), lines 827-835: the lookup and the miss.
Lookup ==
    /\ pc = "lookup"
    /\ \E resp \in {"ok", "401"} \cup Faulty({"error"}) :
       \E ans \in Asked(IssuePrompts(always_continue)
                        /\ (resp = "error" \/ (resp = "ok" /\ RemoteLookup(term) = <<>>)),
                        ContinueAnswers) :
          /\ faults' = faults + (IF resp = "error" THEN 1 ELSE 0)
          /\ plain' = (plain /\ resp = "ok" /\ ans \in YesAnswers)
          /\ CASE resp = "401" ->
                  /\ fatal("API key rejected (401 Unauthorized)")
                  /\ failedLine' = idx
                  /\ UNCHANGED <<idx, results, selected, stats, outcome, always_continue>>
            [] resp = "error" ->
                  ExceptHandler(ans)
            [] OTHER ->
                  IF RemoteLookup(term) = <<>>
                  THEN /\ EndWithIssue("MISS", "misses", ans)
                       /\ UNCHANGED failedLine
                  ELSE /\ results' = RemoteLookup(term)
                       /\ pc' = "resolve"
                       /\ UNCHANGED <<idx, selected, stats, outcome, failedLine,
                                      always_continue, exit_msg>>
    /\ UNCHANGED <<flags, stateFile, library, run, start_index, existing_tmdb,
                   always_yes_add, dryrun_hits, writes, posts, halted,
                   library0, saved, stored>>

\* A test that takes every candidate to have an id.
MissingId_Never(m) == FALSE

\* Line 852: not tmdb.
MissingId(m) == m.tmdbId = NoId

\* main(), lines 837-858: pick one candidate; no selection and a candidate
\* without tmdbId end the line.
Resolve ==
    /\ pc = "resolve"
    /\ LET filtered == Filtered(results, desired_year)
           shown == Take(filtered, MAX_CHOICES_TO_SHOW)
       IN
       \E yans \in Asked(IssuePrompts(always_continue) /\ IsYearMiss(results, desired_year),
                         ContinueAnswers) :
       \E cans \in Asked(AsksChoice(term, filtered, desired_year,
                                    prompt_continue(always_continue, yans).ac),
                         {a \in ChoiceAnswers : ChoiceEndsPrompt(shown, a)}) :
          LET r == choose_from_results(term, results, desired_year, always_continue, yans, cans)
              ends == r.kind = "None" \/ (r.kind = "movie" /\ MissingId(r.m))
          IN
          \E ans \in Asked(IssuePrompts(r.ac) /\ ends, ContinueAnswers) :
             LET p == prompt_continue(r.ac, ans) IN
             /\ plain' = (plain /\ yans \in YesAnswers /\ cans \in SkipAnswers /\ ans \in YesAnswers)
             /\ CASE r.kind = "ABORT" ->
                     /\ fatal("User aborted.")
                     /\ always_continue' = r.ac
                     /\ UNCHANGED <<idx, results, selected, stats, outcome>>
               [] r.kind = "None" ->
                     /\ stats' = Bump(stats, "skipped")
                     /\ outcome' = "SKIP"
                     /\ always_continue' = p.ac
                     /\ IF p.ok THEN NextLine
                        ELSE fatal("User aborted.") /\ UNCHANGED <<idx, results, selected>>
               [] r.kind = "movie" /\ MissingId(r.m) ->
                     /\ stats' = Bump(stats, "errors")
                     /\ outcome' = "ERR"
                     /\ always_continue' = p.ac
                     /\ IF p.ok THEN NextLine
                        ELSE fatal("User aborted.") /\ selected' = r.m
                             /\ UNCHANGED <<idx, results>>
               [] OTHER ->
                     /\ selected' = r.m
                     /\ pc' = "dedupe"
                     /\ always_continue' = r.ac
                     /\ UNCHANGED <<idx, results, stats, outcome, exit_msg>>
    /\ UNCHANGED <<flags, stateFile, library, run, start_index, existing_tmdb,
                   always_yes_add, dryrun_hits, faults, writes, posts, halted, failedLine,
                   library0, saved, stored>>

\* A membership test that forgets the index.
IsDuplicate_Never(tmdb, existing) == FALSE

\* Line 860: the membership test of the duplicate index.
IsDuplicate(tmdb, existing) == tmdb \in existing

\* A loop body without the duplicate branch.
DedupeCheck_Omitted ==
    /\ pc = "dedupe"
    /\ pc' = "deduped"
    /\ UNCHANGED <<flags, stateFile, library, run, memory, faults, history>>

\* main(), lines 860-864: a candidate the duplicate index holds ends the line.
DedupeCheck ==
    /\ pc = "dedupe"
    /\ IF IsDuplicate(selected.tmdbId, existing_tmdb)
       THEN EndLine("DUP", "duplicates")
       ELSE /\ pc' = "deduped"
            /\ UNCHANGED <<idx, results, selected, stats, outcome, exit_msg>>
    /\ UNCHANGED <<flags, stateFile, library, run, start_index, existing_tmdb, always_continue,
                   always_yes_add, dryrun_hits, faults, writes, posts, halted, failedLine,
                   library0, plain, saved, stored>>

\* A simulated add that makes the add call all the same.
Simulate_Posting ==
    /\ pc = "deduped"
    /\ DRY_RUN
    /\ dryrun_hits' = Append(dryrun_hits, selected)
    /\ existing_tmdb' = existing_tmdb \cup {selected.tmdbId}
    /\ posts' = posts + 1
    /\ EndLine("DRY", "would_add")
    /\ UNCHANGED <<flags, stateFile, library, run, start_index, always_continue,
                   always_yes_add, faults, writes, halted, failedLine,
                   library0, plain, saved, stored>>

\* main(), lines 866-872: the simulated add.
Simulate ==
    /\ pc = "deduped"
    /\ DRY_RUN
    /\ dryrun_hits' = Append(dryrun_hits, selected)
    /\ existing_tmdb' = existing_tmdb \cup {selected.tmdbId}
    /\ EndLine("DRY", "would_add")
    /\ UNCHANGED <<flags, stateFile, library, run, start_index, always_continue,
                   always_yes_add, faults, writes, posts, halted, failedLine,
                   library0, plain, saved, stored>>

\* main(), lines 874-879: the confirmation gate.
Confirm ==
    /\ pc = "deduped"
    /\ ~DRY_RUN
    /\ \E ans \in Asked(CONFIRM_EACH_ADD_DEFAULT /\ ~AUTO_ADD /\ ~always_yes_add,
                        ConfirmAnswers) :
          LET p == IF CONFIRM_EACH_ADD_DEFAULT
                   THEN prompt_confirm_add(AUTO_ADD, YES_ALL, always_yes_add, ans)
                   ELSE [ok |-> TRUE, ay |-> always_yes_add]
          IN
          /\ always_yes_add' = p.ay
          /\ plain' = (plain /\ ans \in YesAnswers)
          /\ IF p.ok
             THEN /\ pc' = "confirmed"
                  /\ UNCHANGED <<idx, results, selected, stats, outcome, exit_msg>>
             ELSE EndLine("SKIP", "skipped")
    /\ UNCHANGED <<flags, stateFile, library, run, start_index, existing_tmdb, always_continue,
                   dryrun_hits, faults, writes, posts, halted, failedLine,
                   library0, saved, stored>>

\* Line 882: the statuses that count as added.
AddSucceeded(status) == status \in {"200", "201"}

\* An index that takes the id whatever the add call answered.
IndexAfterPost_Always(existing, tmdb, status) == existing \cup {tmdb}

\* Lines 882-885: the duplicate index after the add call for tmdb answered
\* with the status given ("error" when the call raised).
IndexAfterPost(existing, tmdb, status) ==
    IF AddSucceeded(status) THEN existing \cup {tmdb} ELSE existing

\* main(), lines 881-891: the add call and its status.
AddMovie ==
    /\ pc = "confirmed"
    /\ posts' = posts + 1
    /\ \E resp \in {"200", "201", "401"} \cup Faulty({"500", "error"}) :
       \E ans \in Asked(IssuePrompts(always_continue) /\ resp \in {"500", "error"},
                        ContinueAnswers) :
          /\ faults' = faults + (IF resp \in {"500", "error"} THEN 1 ELSE 0)
          /\ plain' = (plain /\ AddSucceeded(resp) /\ ans \in YesAnswers)
          /\ existing_tmdb' = IndexAfterPost(existing_tmdb, selected.tmdbId, resp)
          /\ library' = (IF AddSucceeded(resp) THEN library \cup {selected.tmdbId} ELSE library)
          /\ CASE resp = "401" ->
                  /\ fatal("API key rejected (401 Unauthorized)")
                  /\ failedLine' = idx
                  /\ UNCHANGED <<idx, results, selected, stats, outcome, always_continue>>
            [] resp = "error" ->
                  ExceptHandler(ans)
            [] AddSucceeded(resp) ->
                  /\ stats' = Bump(Bump(stats, "would_add"), "added")
                  /\ outcome' = "ADD"
                  /\ NextLine
                  /\ UNCHANGED <<failedLine, always_continue>>
            [] OTHER ->
                  /\ EndWithIssue("ERR", "errors", ans)
                  /\ failedLine' = idx
    /\ UNCHANGED <<flags, stateFile, run, start_index, always_yes_add, dryrun_hits,
                   writes, halted, library0, saved, stored>>

\* main(), lines 901-905: after the loop, or after its break.
Finish ==
    /\ \/ pc = "loop" /\ idx >= Len(movies)
       \/ pc = "final"
    /\ WriteState(Len(movies))
    /\ pc' = "done"
    /\ UNCHANGED <<flags, library, run, memory, outcome, posts, halted, failedLine,
                   exit_msg, library0, plain>>

Running == {"load", "seed", "loop", "lookup", "resolve", "dedupe", "deduped", "confirmed", "final"}
MidLine == {"lookup", "resolve", "dedupe", "deduped", "confirmed"}
Stopped == {"done", "exit", "crashed", "traceback", "cleaned"}

\* The process is killed (Ctrl-C raises KeyboardInterrupt, which the except
\* clause of the loop body does not catch).
Crash ==
    /\ pc \in Running
    /\ pc' = "crashed"
    /\ ResetMemory
    /\ UNCHANGED <<flags, stateFile, library, run, faults, history>>

\* The process is killed inside save_state (line 818 or 902), once
\* Path.write_text has opened the state file for writing, which empties it,
\* and before the text is in it: save_state catches Exception only, so the
\* KeyboardInterrupt ends the process and the file stays empty.  (Killed
\* before the file is opened, the process leaves what Crash leaves; killed
\* after the text is written, what Dispatch and then Crash leave at line
\* 818, and what InterruptedFinish leaves at line 902.)
InterruptedSave ==
    /\ pc \in {"loop", "final"}
    /\ stateFile' = write_text(stateFile, 0, "truncated")
    /\ pc' = "crashed"
    /\ ResetMemory
    /\ UNCHANGED <<flags, library, run, faults, history>>

\* The process is killed after save_state(len(movies)) of line 902 has
\* returned and before it ends (lines 903-905: the dry-run report, the
\* summary and "Import complete."): the state file is what the final save
\* left, and the run has no summary.
InterruptedFinish ==
    /\ \/ pc = "loop" /\ idx >= Len(movies)
       \/ pc = "final"
    /\ WriteState(Len(movies))
    /\ pc' = "crashed"
    /\ ResetMemory
    /\ UNCHANGED <<flags, library, run, outcome, posts, halted, failedLine,
                   exit_msg, library0, plain>>

\* The process is killed inside add_movie (line 881) while it waits for the
\* answer to a POST that Radarr has carried out: the library holds the movie,
\* and lines 882-886 never run.
InterruptedAdd ==
    /\ pc = "confirmed"
    /\ posts' = posts + 1
    /\ library' = library \cup {selected.tmdbId}
    /\ pc' = "crashed"
    /\ ResetMemory
    /\ UNCHANGED <<flags, stateFile, run, faults, outcome, writes, halted, failedLine,
                   exit_msg, library0, plain, saved, stored>>

\* main(), line 741, in a process started with --clean, --wipe-config or
\* --nuke: cleanup_files() deletes its targets and ends the process with
\* sys.exit(0) before anything else of main() runs.  STATE_FILE is a target
\* under --clean and --nuke (clean); the deletion is made under --force or
\* when the operator confirms it (proceed); raises: the unlink fails.
cleanup_files ==
    /\ pc \in Stopped
    /\ \E clean \in BOOLEAN, proceed \in BOOLEAN, raises \in BOOLEAN :
          /\ stateFile' = (IF clean /\ proceed THEN safe_unlink(stateFile, raises) ELSE stateFile)
          /\ saved' = (IF stateFile' = stateFile THEN saved ELSE NoLine)
    /\ pc' = "cleaned"
    /\ ResetMemory
    /\ outcome' = "none"
    /\ writes' = <<>>
    /\ posts' = 0
    /\ halted' = NoLine
    /\ exit_msg' = ""
    /\ stored' = TRUE
    /\ UNCHANGED <<flags, library, run, faults, failedLine, library0, plain>>

\* The operator runs the script again with the same flags and input file.
Restart ==
    /\ pc \in Stopped
    /\ run < MaxRuns
    /\ run' = run + 1
    /\ pc' = "load"
    /\ ResetMemory
    /\ outcome' = "none"
    /\ writes' = <<>>
    /\ posts' = 0
    /\ halted' = NoLine
    /\ exit_msg' = ""
    /\ stored' = TRUE
    /\ UNCHANGED <<flags, stateFile, library, faults, failedLine, library0, plain, saved>>

Next ==
    \/ LoadState
    \/ FetchExisting
    \/ Dispatch
    \/ Lookup
    \/ Resolve
    \/ DedupeCheck
    \/ Simulate
    \/ Confirm
    \/ AddMovie
    \/ Finish
    \/ Crash
    \/ InterruptedSave
    \/ InterruptedFinish
    \/ InterruptedAdd
    \/ cleanup_files
    \/ Restart

Spec == Init /\ [][Next]_vars

\* ------------------------------------------------- the uninterrupted run
\* The loop body of main() (lines 820-899) as a function, for a catalog that
\* answers every call and an operator who takes every prompt's default: the
\* log tag of the line t and the duplicate index, sticky flags and add count
\* after it.  st.stopped: the loop was left by the break of line 825.
RefStep(st, t) ==
    LET res == RemoteLookup(t)
        r == choose_from_results(t, res, parse_title_year(t).year, st.ac, "", "")
        c == IF CONFIRM_EACH_ADD_DEFAULT
             THEN prompt_confirm_add(AUTO_ADD, YES_ALL, st.ay, "")
             ELSE [ok |-> TRUE, ay |-> st.ay]
    IN
    IF st.stopped THEN [st EXCEPT !.out = "none"]
    ELSE IF CapReached(DRY_RUN, MAX_ADD, st.added) THEN [st EXCEPT !.out = "none", !.stopped = TRUE]
    ELSE IF res = <<>> THEN [st EXCEPT !.out = "MISS"]
    ELSE IF r.kind = "None" THEN [st EXCEPT !.out = "SKIP", !.ac = r.ac]
    ELSE IF MissingId(r.m) THEN [st EXCEPT !.out = "ERR", !.ac = r.ac]
    ELSE IF IsDuplicate(r.m.tmdbId, st.existing) THEN [st EXCEPT !.out = "DUP", !.ac = r.ac]
    ELSE IF DRY_RUN
         THEN [st EXCEPT !.out = "DRY", !.ac = r.ac, !.existing = @ \cup {r.m.tmdbId}]
    ELSE [st EXCEPT !.out = "ADD", !.ac = r.ac, !.ay = c.ay, !.added = @ + 1,
                    !.existing = IndexAfterPost(@, r.m.tmdbId, "201")]

\* The uninterrupted run over the lines 0..n-1, begun with the library as it
\* was before the first run.
RECURSIVE RefRun(_)
RefRun(n) ==
    IF n = 0
    THEN [out |-> "none", existing |-> get_existing_tmdb_ids(library0), ac |-> FALSE,
          ay |-> FALSE, added |-> 0, stopped |-> FALSE]
    ELSE RefStep(RefRun(n - 1), movies[n])

\* The log tag the uninterrupted run gives line i.
UninterruptedOutcome(i) == RefRun(i + 1).out

\* ------------------------------------------------------------------ claims
\* C1: when the run halts because --max-add successful adds are reached, the
\* resume state left at the end of the run is the index of the line at which
\* it halted, so the next run resumes from that line.
C1_CapHaltKeepsHaltedLine ==
    (pc = "done" /\ halted # NoLine) => StoredIndex(stateFile) = halted

\* C2: a run that begins after the last successful save stored the index k
\* starts at line k and never looks up, adds or logs a line below k.
C2_ResumeStartsAtSavedIndex ==
    /\ [][(pc = "load" /\ saved # NoLine /\ pc' # "crashed")
            => (pc' = "seed" /\ start_index' = saved)]_vars
    /\ [][(pc \in Running \ {"load"} /\ pc' \in Running \cup {"done", "exit"})
            => start_index' = start_index]_vars
    /\ [](pc \in MidLine \cup {"loop", "final"} => idx >= start_index)

\* C4: in every state of a run, the stored nextIndex is not beyond a line
\* that is still being processed: while the line at idx has no outcome yet,
\* the stored index is at most idx.
C4_StoredIndexCoversOnlyHandledLines ==
    pc \in MidLine => StoredIndex(stateFile) <= idx

\* C5: a failed lookup or add of line i is not retried within the run, and
\* the next run starts at or before line i, so that it processes i again.
C5_RerunContinuesFromFailedLine ==
    /\ [][(failedLine' # failedLine /\ failedLine' # NoLine)
            => (pc' \in {"loop", "exit"} /\ (pc' = "loop" => idx' = failedLine' + 1))]_vars
    /\ [][(pc = "load" /\ pc' = "seed" /\ run > 1 /\ failedLine # NoLine)
            => start_index' <= failedLine]_vars

\* C6: when the operator aborts while line idx is handled, the run ends
\* there: the last call of save_state is the one made when the line was
\* dispatched, no step between the dispatch and the end of the process
\* touches the state file, and the file keeps the index idx + 1 that the
\* dispatch stored; the final save of the line count is not made.
C6_AbortLeavesDispatchSave ==
    /\ [](exit_msg = "User aborted."
            => /\ pc = "exit"
               /\ writes = [i \in 1..(idx + 1 - start_index) |-> start_index + i]
               /\ stored => stateFile = save_state(idx + 1))
    /\ [][(pc \in MidLine)
            => (stateFile' = stateFile /\ writes' = writes /\ stored' = stored)]_vars

C6_Witness ==
    /\ pc = "exit" /\ exit_msg = "User aborted."
    /\ idx = 0 /\ Len(movies) > 1 /\ stateFile = save_state(1)

\* C7: loading the resume state never fails, and gives 0 when there is no
\* state file and when the file is invalid JSON, no JSON object, an object
\* without a usable index, or holds an index that is no integer.
UsableState(file) ==
    /\ file.kind = "object"
    /\ \/ file.next_index.t = "int"
       \/ file.next_index.t = "missing" /\ file.last_index.t = "int"

C7_CorruptStateStartsFromZero ==
    /\ pc # "traceback"
    /\ (pc = "seed" /\ ~UsableState(stateFile)) => start_index = 0

\* C3: a run restarted after an interruption gives every line it processes
\* the outcome the uninterrupted run gives that line, for a catalog that
\* answers every call and an operator who takes every default, in live and
\* in simulation mode.
C3_RestartedRunRepeatsOutcomes ==
    (run > 1 /\ plain /\ pc = "loop" /\ outcome # "none" /\ UninterruptedOutcome(idx - 1) # "none")
        => outcome = UninterruptedOutcome(idx - 1)

\* C8: an id the duplicate index holds stays in it for the rest of the run,
\* and a line that resolves to it is logged as duplicate, never as added or
\* would-add.
C8_DuplicateMonotonicity ==
    [][\A t \in TmdbIds :
          (t \in existing_tmdb /\ pc \in MidLine \cup {"loop", "final"} /\ pc' # "crashed")
              => /\ t \in existing_tmdb'
                 /\ (selected.tmdbId = t /\ idx' = idx + 1) => outcome' \notin {"ADD", "DRY"}
                 /\ (selected.tmdbId = t /\ pc = "dedupe") => (outcome' = "DUP" /\ idx' = idx + 1)]_vars

C8_Witness ==
    /\ run = 1 /\ pc = "loop" /\ outcome = "DUP"
    /\ get_existing_tmdb_ids(library0) = {} /\ stats.would_add = 1

\* C9: the membership test of the duplicate index comes after the resolution
\* of the line and before its add call or simulated add; a positive test
\* counts the line as duplicate, and no add call or simulated add is made for
\* an id the index holds.
C9_DedupeBeforeAdd ==
    [][/\ (posts' > posts \/ Len(dryrun_hits') > Len(dryrun_hits))
            => (pc \in {"deduped", "confirmed"} /\ selected.tmdbId \notin existing_tmdb)
       /\ pc' # "crashed"
         => /\ pc' = "dedupe" => (pc = "resolve" /\ selected' # NoMovie)
            /\ pc' = "deduped"
                 => (pc = "dedupe" /\ selected' = selected /\ selected.tmdbId \notin existing_tmdb)
            /\ pc' = "confirmed" => (pc = "deduped" /\ selected' = selected)
            /\ (pc = "dedupe" /\ selected.tmdbId \in existing_tmdb)
                 => /\ outcome' = "DUP"
                    /\ stats' = Bump(stats, "duplicates")
                    /\ posts' = posts
                    /\ dryrun_hits' = dryrun_hits]_vars

C9_Witness ==
    /\ ~DRY_RUN /\ run = 1 /\ pc = "loop" /\ outcome = "DUP"
    /\ posts = 0 /\ stats.duplicates = 1 /\ 1 \in library0

\* C10: within a run the duplicate index loses no id, and it changes only at
\* a line that ends as added (an add call answered 200 or 201) or as
\* simulated add, by the id of that line.
C10_IndexGrowsOnlyOnAdd ==
    [][(pc \in MidLine \cup {"loop", "final"} /\ pc' # "crashed")
         => /\ existing_tmdb \subseteq existing_tmdb'
            /\ existing_tmdb' # existing_tmdb
                 => /\ idx' = idx + 1
                    /\ existing_tmdb' = existing_tmdb \cup {selected.tmdbId}
                    /\ \/ outcome' = "ADD" /\ ~DRY_RUN /\ posts' = posts + 1
                       \/ outcome' = "DRY" /\ DRY_RUN /\ posts' = posts
            /\ outcome' \in {"MISS", "SKIP", "DUP", "ERR", "FAIL"}
                 => existing_tmdb' = existing_tmdb]_vars

C10_Witness ==
    /\ ~DRY_RUN /\ pc = "loop" /\ outcome = "ERR"
    /\ posts = 2 /\ stats.added = 1 /\ Cardinality(existing_tmdb \ library0) = 1

\* The first run, with every call answered and every default taken, is the
\* uninterrupted run.
FirstRunIsUninterruptedRun ==
    (run = 1 /\ plain /\ pc = "loop" /\ outcome # "none") => outcome = UninterruptedOutcome(idx - 1)
\* C11: in a dry run no add call is made and the library is not changed; the
\* added counter stays 0, and a resolved candidate the duplicate index does
\* not hold is counted as would-add, appended to the report list and put in
\* the duplicate index.
C11_DryRunMakesNoAddCall ==
    /\ [](DRY_RUN => (posts = 0 /\ stats.added = 0 /\ library = library0
                      /\ Len(dryrun_hits) = stats.would_add))
    /\ [][(DRY_RUN /\ pc = "deduped" /\ pc' # "crashed")
            => /\ outcome' = "DRY"
               /\ stats' = Bump(stats, "would_add")
               /\ dryrun_hits' = Append(dryrun_hits, selected)
               /\ existing_tmdb' = existing_tmdb \cup {selected.tmdbId}]_vars

C11_Witness ==
    /\ DRY_RUN /\ pc = "loop" /\ outcome = "DRY" /\ posts = 0
    /\ Len(dryrun_hits) = 1 /\ dryrun_hits[1].tmdbId \in existing_tmdb \ library0
\* C12: a 401 answer to a remote call ends the run at once: the except
\* clause of the loop body does not take it, no counter and no log tag
\* records it, no prompt is asked, and the process makes no further step.
Rejected == "API key rejected (401 Unauthorized)"

C12_RejectionEndsRun ==
    /\ [][(exit_msg' = Rejected /\ exit_msg # Rejected)
            => /\ pc' = "exit"
               /\ stats' = stats /\ outcome' = outcome /\ idx' = idx
               /\ always_continue' = always_continue
               /\ posts' <= posts + 1]_vars
    /\ [][(pc = "exit" /\ exit_msg = Rejected)
            => ((pc' = "load" /\ run' = run + 1) \/ pc' = "cleaned")]_vars

C12_Witness ==
    /\ pc = "exit" /\ exit_msg = Rejected /\ posts = 1
    /\ idx = 0 /\ Len(movies) > 1 /\ stats.errors = 0 /\ stats.misses = 0
\* C13: a lookup that fails with a transport error is counted as a miss:
\* the misses counter goes up by one and the errors counter stays, and the
\* issue prompt then decides between the next line and the abort.
C13_FailedLookupCountsAsMiss ==
    [][(pc = "lookup" /\ faults' = faults + 1)
         => /\ stats'.misses = stats.misses + 1
            /\ stats'.errors = stats.errors
            /\ pc' \in {"loop", "exit"}]_vars
\* ------------------------------------------- resolution of any lookup answer
\* The resolution step of lines 837-858 for whatever the catalog answered:
\* the second line of a two-line file has been looked up and the answer, up
\* to MaxResults candidates, is not empty; the first line was a miss, at
\* which the operator answered Enter or "always".
MaxResults == 3

T_It1999 == <<"I", "t", " ", "(", "1", "9", "9", "9", ")">>
ResolveTerms == {T_It, T_It1999, T_It1985}

K_It2001 == [tmdbId |-> 5, title |-> <<"I", "t">>, year |-> 2001]
K_It1999 == [tmdbId |-> 6, title |-> <<"I", "t">>, year |-> 1999]
K_IT1999 == [tmdbId |-> 7, title |-> <<"I", "T", " ">>, year |-> 1999]
K_Item1999 == [tmdbId |-> 8, title |-> <<"I", "t", "e", "m">>, year |-> 1999]
Candidates == {K_It2001, K_It1999, K_IT1999, K_Item1999}

LookupAnswers ==
    UNION {{r \in [1..n -> Candidates] : \A i, j \in 1..n : r[i] = r[j] => i = j}
           : n \in 1..MaxResults}

InitResolve ==
    /\ DRY_RUN \in BOOLEAN
    /\ MAX_ADD = NoCap
    /\ AUTO_ADD = FALSE
    /\ YES_ALL = FALSE
    /\ movies \in {<<T_Zz, t>> : t \in ResolveTerms}
    /\ stateFile = save_state(2)
    /\ library = {}
    /\ run = 1
    /\ pc = "resolve"
    /\ start_index = 0
    /\ idx = 1
    /\ existing_tmdb = {}
    /\ always_continue \in BOOLEAN
    /\ always_yes_add = FALSE
    /\ stats = Bump(Bump(Bump(ZeroStats, "processed"), "misses"), "processed")
    /\ dryrun_hits = <<>>
    /\ results \in LookupAnswers
    /\ selected = NoMovie
    /\ faults = 0
    /\ outcome = "none"
    /\ writes = <<1, 2>>
    /\ posts = 0
    /\ halted = NoLine
    /\ failedLine = NoLine
    /\ exit_msg = ""
    /\ library0 = {}
    /\ plain = ~always_continue
    /\ saved = 2
    /\ stored = TRUE

SpecResolve == InitResolve /\ [][Resolve]_vars

\* C14: with a desired year and at least one candidate of that year, the
\* resolution returns a candidate only from those of that year; for the
\* answer <<2001, 1999>> and the desired year 1999 it returns the 1999 one.
HasYear(rs, y) == \E i \in 1..Len(rs) : rs[i].year = y

C14_StrictYearFiltering ==
    [][(pc = "resolve" /\ STRICT_YEAR_MATCH /\ desired_year # NoYear
          /\ HasYear(results, desired_year))
         => /\ pc' = "dedupe"
                 => /\ selected'.year = desired_year
                    /\ \E i \in 1..Len(results) : results[i] = selected'
            /\ (results = <<K_It2001, K_It1999>> /\ desired_year = 1999)
                 => (pc' = "dedupe" /\ selected' = K_It1999)]_vars

C14_Witness ==
    /\ pc = "dedupe" /\ term = T_It1999
    /\ results = <<K_It2001, K_It1999>> /\ selected = K_It1999
\* C15: without a desired year, when exactly one candidate's title is the
\* term's title up to case, the resolution returns that candidate whatever
\* its position and whatever the operator would answer; with a desired year
\* there is no such shortcut: the choice prompt or the first candidate kept
\* decides.
TitleIs(m, t) == lower(strip(m.title)) = lower(parse_title_year(t).title)
TitleHits(rs, t) == {i \in 1..Len(rs) : TitleIs(rs[i], t)}

C15_ExactTitleShortcut ==
    [][pc = "resolve"
         => /\ (desired_year = NoYear /\ Cardinality(TitleHits(results, term)) = 1)
                 => /\ pc' = "dedupe"
                    /\ \E i \in TitleHits(results, term) : selected' = results[i]
                    /\ always_continue' = always_continue
            /\ (desired_year # NoYear /\ pc' = "dedupe")
                 => LET kept == Filtered(results, desired_year) IN
                    IF Len(kept) > 1 /\ INTERACTIVE_ON_ISSUES /\ ~always_continue'
                    THEN \E i \in 1..Len(kept) : selected' = kept[i]
                    ELSE selected' = kept[1]
            /\ (desired_year # NoYear /\ always_continue)
                 => (pc' = "dedupe" /\ selected' = Filtered(results, desired_year)[1])]_vars

C15_Witness ==
    /\ pc = "dedupe" /\ term = T_It /\ ~always_continue
    /\ results = <<K_Item1999, K_IT1999>> /\ selected = K_IT1999
\* C16: with two or more candidates kept, no shortcut, the choice prompt not
\* locked and Enter typed at it, the resolution returns None and not the
\* first candidate; the line is counted as skipped and ends without an add.
Ambiguous(rs, t) ==
    LET dy == parse_title_year(t).year
        kept == IF dy # NoYear /\ STRICT_YEAR_MATCH /\ HasYear(rs, dy)
                THEN SelectSeq(rs, LAMBDA m : m.year = dy)
                ELSE rs
    IN Len(kept) >= 2 /\ (dy # NoYear \/ Cardinality(TitleHits(kept, t)) # 1)

C16_EnterSkipsTheChoice ==
    [][(pc = "resolve" /\ INTERACTIVE_ON_ISSUES /\ ~always_continue /\ Ambiguous(results, term))
         => /\ choose_from_results(term, results, desired_year, always_continue, "", "").kind = "None"
            /\ (plain /\ plain')
                 => /\ outcome' = "SKIP"
                    /\ stats' = Bump(stats, "skipped")
                    /\ selected' = NoMovie
                    /\ posts' = posts /\ dryrun_hits' = dryrun_hits
                    /\ pc' = "loop" /\ idx' = idx + 1]_vars

C16_Witness ==
    /\ pc = "loop" /\ idx = 2 /\ movies[2] = T_It1999 /\ plain
    /\ outcome = "SKIP" /\ stats.skipped = 1 /\ posts = 0
\* C17: the resolution at which the operator answers "always" returns the
\* first candidate shown; from then on always_continue stays set for the
\* rest of the run, and every ambiguous resolution returns the first
\* candidate kept whatever the operator would type.
C17_AlwaysLocksFirstCandidate ==
    /\ [][(pc = "resolve" /\ ~always_continue /\ always_continue' /\ pc' = "dedupe")
            => selected' = Take(Filtered(results, desired_year), MAX_CHOICES_TO_SHOW)[1]]_vars
    /\ [][(pc = "resolve" /\ always_continue /\ Ambiguous(results, term) /\ pc' # "crashed")
            => /\ pc' = "dedupe"
               /\ selected' = Filtered(results, desired_year)[1]
               /\ plain' = plain]_vars
    /\ [][(always_continue /\ pc \in MidLine \cup {"loop", "final"} /\ pc' # "crashed")
            => always_continue']_vars

C17_Witness ==
    /\ run = 1 /\ pc = "dedupe" /\ idx = 1 /\ always_continue
    /\ movies = <<T_It, T_It1985>> /\ selected = M_It2017
    /\ stats.misses = 0 /\ stats.errors = 0 /\ stats.skipped = 0
\* C18: the issue prompt continues on Enter, aborts on "n" or "quit" and
\* sets always_continue on "always"; with the flag set it continues
\* whatever is typed, the flag stays set for the rest of the run, and every
\* miss, year miss and error goes on to the next step: the run no longer
\* ends with "User aborted.".
C18_IssuePolicyIsSticky ==
    /\ [](pc \in MidLine
            => /\ \A a \in ContinueAnswers :
                    prompt_continue(always_continue, a) =
                       IF always_continue \/ a = "always" THEN [ok |-> TRUE, ac |-> TRUE]
                       ELSE [ok |-> a = "" \/ a = "yes", ac |-> FALSE])
    /\ [][(always_continue /\ pc \in MidLine /\ pc' # "crashed")
            => /\ always_continue'
               /\ exit_msg' # "User aborted."
               /\ outcome' \in {"MISS", "FAIL", "ERR", "SKIP"} => (pc' = "loop" /\ idx' = idx + 1)
               /\ (pc = "resolve" /\ IsYearMiss(results, desired_year)) => pc' = "dedupe"]_vars

C18_Witness ==
    /\ run = 1 /\ pc = "dedupe" /\ idx = 1 /\ always_continue
    /\ movies = <<T_It, T_It1985>> /\ selected = M_It2017
    /\ stats.errors = 1 /\ stats.processed = 2
\* C19: in a live run with --max-add N the added counter never exceeds N,
\* and once it is N the run makes no further lookup and no further add call:
\* it leaves the loop; in a dry run the cap stops nothing.
C19_CapBoundsAdds ==
    /\ []((~DRY_RUN /\ MAX_ADD # NoCap) => stats.added <= MAX_ADD)
    /\ [][(~DRY_RUN /\ MAX_ADD # NoCap /\ stats.added >= MAX_ADD
             /\ pc \in {"loop", "final"} /\ pc' # "crashed")
            => (pc' \in {"final", "done"} /\ posts' = posts /\ results' = results
                /\ library' = library)]_vars
    /\ [][(DRY_RUN /\ pc = "loop" /\ idx < Len(movies) /\ pc' # "crashed")
            => (pc' = "lookup" /\ halted' = NoLine)]_vars

C19_Witness ==
    /\ ~DRY_RUN /\ MAX_ADD = 1 /\ pc = "done" /\ halted = 1
    /\ stats.added = 1 /\ posts = 1 /\ stats.processed = 2
\* C20: the confirmation passes every candidate under --auto-add and once
\* always_yes_add is set; the flag is set by "all" and, under --yes-all, by
\* the first yes, and it stays set for the rest of the run; a declined
\* confirmation counts the line as skipped, makes no add call and leaves the
\* duplicate index as it is.
C20_ConfirmationGate ==
    /\ [](pc = "deduped"
            => \A a \in ConfirmAnswers :
                  prompt_confirm_add(AUTO_ADD, YES_ALL, always_yes_add, a) =
                     IF AUTO_ADD \/ always_yes_add THEN [ok |-> TRUE, ay |-> always_yes_add]
                     ELSE IF a \in {"", "y"} THEN [ok |-> TRUE, ay |-> YES_ALL]
                     ELSE IF a = "all" THEN [ok |-> TRUE, ay |-> TRUE]
                     ELSE [ok |-> FALSE, ay |-> FALSE])
    /\ [][(pc = "deduped" /\ ~DRY_RUN /\ (AUTO_ADD \/ always_yes_add) /\ pc' # "crashed")
            => (pc' = "confirmed" /\ stats' = stats /\ selected' = selected)]_vars
    /\ [][(always_yes_add /\ pc \in MidLine \cup {"loop", "final"} /\ pc' # "crashed")
            => always_yes_add']_vars
    /\ [][(pc = "deduped" /\ ~DRY_RUN /\ pc' \notin {"confirmed", "crashed"})
            => /\ outcome' = "SKIP" /\ stats' = Bump(stats, "skipped")
               /\ posts' = posts /\ library' = library
               /\ existing_tmdb' = existing_tmdb
               /\ pc' = "loop" /\ idx' = idx + 1]_vars

C20_Witness ==
    /\ YES_ALL /\ always_yes_add /\ pc = "confirmed" /\ idx = 1
    /\ stats.added = 1 /\ posts = 1 /\ selected.tmdbId \notin existing_tmdb
\* ------------------------------------------------- parsing of any input line
\* The first line of a one-line file is taken by the loop and parsed (line
\* 821).  The line is any text of up to MaxTokens pieces, as line 788 keeps
\* it: stripped and not empty.
MaxTokens == 5

Tokens == {<<"F">>, <<" ">>, <<"(">>, <<")">>, <<"1">>, <<"1", "9", "9", "9">>}

RECURSIVE Concat(_)
Concat(ts) == IF ts = <<>> THEN <<>> ELSE Head(ts) \o Concat(Tail(ts))

RawLines == UNION {{Concat(ts) : ts \in [1..n -> Tokens]} : n \in 0..MaxTokens}
ParseLines == {strip(l) : l \in RawLines} \ {<<>>}

InitParse ==
    /\ DRY_RUN \in BOOLEAN
    /\ MAX_ADD = NoCap
    /\ AUTO_ADD = FALSE
    /\ YES_ALL = FALSE
    /\ movies \in {<<l>> : l \in ParseLines}
    /\ stateFile = FileAbsent
    /\ library = {}
    /\ run = 1
    /\ pc = "loop"
    /\ start_index = 0
    /\ idx = 0
    /\ existing_tmdb = {}
    /\ always_continue = FALSE
    /\ always_yes_add = FALSE
    /\ stats = ZeroStats
    /\ dryrun_hits = <<>>
    /\ results = <<>>
    /\ selected = NoMovie
    /\ faults = 0
    /\ outcome = "none"
    /\ writes = <<>>
    /\ posts = 0
    /\ halted = NoLine
    /\ failedLine = NoLine
    /\ exit_msg = ""
    /\ library0 = {}
    /\ plain = TRUE
    /\ saved = NoLine
    /\ stored = TRUE

SpecParse == InitParse /\ [][Dispatch]_vars

\* C21: a line that ends with "(", four digits and ")", then whitespace only,
\* parses to the number as year and the trimmed text before the parenthesis
\* as title; every other line parses to no year and the trimmed line.
\* "Foo Bar (1999)" gives ("Foo Bar", 1999) and "Foo Bar" gives ("Foo Bar", no year).
EndsWithYear(l) ==
    LET t == rstrip(l)
        n == Len(t)
    IN /\ n >= 6
       /\ t[n] = ")" /\ t[n - 5] = "("
       /\ \A k \in 1..4 : t[n - k] \in {"0", "1", "2", "3", "4", "5", "6", "7", "8", "9"}

Numeral(ds) ==
    LET V(c) == CHOOSE v \in 0..9 : <<"0", "1", "2", "3", "4", "5", "6", "7", "8", "9">>[v + 1] = c
    IN 1000 * V(ds[1]) + 100 * V(ds[2]) + 10 * V(ds[3]) + V(ds[4])

ExpectedParse(l) ==
    LET t == rstrip(l)
        n == Len(t)
    IN IF EndsWithYear(l)
       THEN [title |-> strip(SubSeq(t, 1, n - 6)), year |-> Numeral(SubSeq(t, n - 4, n - 1))]
       ELSE [title |-> strip(l), year |-> NoYear]

T_FooBar == <<"F", "o", "o", " ", "B", "a", "r">>
T_FooBar1999 == T_FooBar \o <<" ", "(", "1", "9", "9", "9", ")">>

C21_LineParsing ==
    pc = "lookup"
        => /\ \A l \in {term, term \o <<" ">>, <<" ">> \o term, term \o <<" ", "\t">>} :
                 parse_title_year(l) = ExpectedParse(l)
           /\ parse_title_year(T_FooBar1999) = [title |-> T_FooBar, year |-> 1999]
           /\ parse_title_year(T_FooBar) = [title |-> T_FooBar, year |-> NoYear]

C21_Witness ==
    /\ pc = "lookup" /\ term = <<"F", " ", "(", "1", "9", "9", "9", ")">>
    /\ desired_year = 1999 /\ parse_title_year(term).title = <<"F">>
\* C22: with a desired year that no candidate has, the issue prompt is
\* asked: "n" or "quit" makes the resolution return ABORT and the run end;
\* otherwise, and with always_continue set, the resolution goes on with all
\* the candidates, so a candidate it returns is one of them and has another
\* year.
C22_YearMissFallsBack ==
    [][(pc = "resolve" /\ STRICT_YEAR_MATCH /\ desired_year # NoYear
          /\ ~HasYear(results, desired_year))
         => /\ \A yans \in ContinueAnswers, cans \in ChoiceAnswers :
                 LET r == choose_from_results(term, results, desired_year,
                                              always_continue, yans, cans)
                 IN /\ (INTERACTIVE_ON_ISSUES /\ ~always_continue /\ yans \in {"n", "quit"})
                         => r.kind = "ABORT"
                    /\ (Len(results) = 1 /\ (always_continue \/ yans \in {"", "yes", "always"}))
                         => (r.kind = "movie" /\ r.m = results[1])
                    /\ r.kind = "movie"
                         => (r.m.year # desired_year /\ \E i \in 1..Len(results) : r.m = results[i])
            /\ pc' = "dedupe"
                 => (selected'.year # desired_year
                     /\ \E i \in 1..Len(results) : selected' = results[i])
            /\ always_continue => (pc' = "dedupe" /\ selected' = results[1])
            /\ exit_msg' = "User aborted." => pc' = "exit"]_vars

C22_Witness ==
    /\ pc = "exit" /\ exit_msg = "User aborted." /\ outcome = "none"
    /\ term = T_It1985 /\ results = <<K_It2001>>
\* C23: a returned candidate without tmdbId ends the line as an error: the
\* errors counter goes up, no add call and no simulated add is made, the
\* duplicate index and the report stay as they are, and the line never
\* reaches the duplicate test.
C23_MissingIdIsAnError ==
    /\ []((pc \in {"dedupe", "deduped", "confirmed"} => selected.tmdbId # NoId)
          /\ NoId \notin existing_tmdb
          /\ \A i \in 1..Len(dryrun_hits) : dryrun_hits[i].tmdbId # NoId)
    /\ [][(pc = "resolve" /\ results = <<M_ExNoId>> /\ pc' # "crashed")
            => /\ outcome' = "ERR" /\ stats' = Bump(stats, "errors")
               /\ posts' = posts /\ dryrun_hits' = dryrun_hits
               /\ existing_tmdb' = existing_tmdb /\ library' = library
               /\ pc' \in {"loop", "exit"}]_vars

C23_Witness ==
    /\ pc = "loop" /\ idx = 1 /\ movies[1] = T_Ex /\ outcome = "ERR"
    /\ stats.errors = 1 /\ stats.duplicates = 0 /\ posts = 0 /\ dryrun_hits = <<>>
    /\ NoId \in library
\* C24: the indexes a run writes never fall: every written value is at
\* least the index loaded at the start of the run, each write made for a
\* line is one more than the write made for the line before, and a run that
\* completes writes the line count last.
C24_WritesAreOrdered ==
    LET n == Len(writes)
        perLine == IF pc = "done" THEN n - 1 ELSE n
    IN pc \in (Running \ {"load"}) \cup {"done", "exit"}
         => /\ \A i \in 1..n : writes[i] >= start_index
            /\ \A i \in 1..(n - 1) : writes[i] <= writes[i + 1]
            /\ \A i \in 1..(perLine - 1) : writes[i + 1] = writes[i] + 1
            /\ pc = "done" => (n > 0 /\ writes[n] = Len(movies))
\* C25: when a run reaches its summary, after the last line or after the
\* --max-add stop, the processed counter is the sum of the duplicates,
\* misses, errors, skipped and would_add counters, and in a live run
\* would_add equals added.
C25_CountersAddUp ==
    pc = "done"
        => /\ stats.processed = stats.duplicates + stats.misses + stats.errors
                                + stats.skipped + stats.would_add
           /\ ~DRY_RUN => stats.would_add = stats.added
\* C26: always_continue is one flag for the issue prompt and the choice
\* prompt: "always" at either sets it, with it set neither prompt is shown
\* (an ambiguous line takes the first candidate kept), it stays set for the
\* rest of the run, and the run can no longer end with "User aborted.".
C26_OneFlagForBothPrompts ==
    /\ [](pc \in MidLine
            => /\ prompt_continue(always_continue, "always").ac
               /\ (pc = "resolve" /\ Ambiguous(results, term))
                    => LET r == choose_from_results(term, results, desired_year,
                                                    always_continue, "", "a")
                       IN r.kind = "movie" /\ r.ac
                          /\ r.m = Filtered(results, desired_year)[1]
               /\ always_continue
                    => /\ ~IssuePrompts(always_continue)
                       /\ \A a \in ContinueAnswers : prompt_continue(always_continue, a).ok
                       /\ pc = "resolve"
                            => ~AsksChoice(term, Filtered(results, desired_year),
                                           desired_year, always_continue))
    /\ [][(always_continue /\ pc \in MidLine \cup {"loop", "final"} /\ pc' # "crashed")
            => (always_continue' /\ exit_msg' # "User aborted.")]_vars

C26_Witness ==
    /\ run = 1 /\ pc = "dedupe" /\ idx = 1 /\ always_continue
    /\ movies = <<T_Zz, T_It>> /\ selected = M_It2017 /\ stats.misses = 1
====
